---- MODULE Spec2Model ----
(***************************************************************************)
(* collada-rs: the parse/encode conversion between xmltree Elements and    *)
(* the typed asset records (Technique, Contributor, Location, Extra,       *)
(* Asset).                                                                 *)
(*                                                                         *)
(* Representation.  Tag names and attribute names are TLA+ strings (the    *)
(* code only compares them).  Text content and attribute values are        *)
(* sequences of one-character strings, because the code splits them on     *)
(* whitespace and parses them as numbers.  Option<T> is a sequence of      *)
(* length at most one.  An attribute HashMap is a function from the set of *)
(* its keys, so that two maps are equal whatever their insertion order.    *)
(***************************************************************************)
EXTENDS Integers, Sequences, FiniteSets, TLC

VARIABLES target, node, pc, rec, res, out, rec2, res2

vars == <<target, node, pc, rec, res, out, rec2, res2>>

----------------------------------------------------------------------------
(* Option<T> *)

None == <<>>

Some(x) == <<x>>

IsSome(o) == Len(o) = 1

Unwrap(o) == o[1]

----------------------------------------------------------------------------
(* xmltree::Element and its attribute map *)

NoAttrs == [k \in {} |-> <<>>]

Attr1(k, v) == [x \in {k} |-> v]

AttrGet(attrs, k) == IF k \in DOMAIN attrs THEN Some(attrs[k]) ELSE None

AttrInsert(attrs, k, v) ==
    [x \in (DOMAIN attrs) \cup {k} |-> IF x = k THEN v ELSE attrs[x]]

Element(name, attributes, children, text) ==
    [name |-> name, attributes |-> attributes, children |-> children, text |-> text]

\* Element::new(name)
ElementNew(name) == Element(name, NoAttrs, <<>>, None)

\* Element::get_child(name): the first child with that tag
RECURSIVE FirstNamed(_, _, _)
FirstNamed(children, name, i) ==
    IF i > Len(children) THEN None
    ELSE IF children[i].name = name THEN Some(children[i])
    ELSE FirstNamed(children, name, i + 1)

GetChild(e, name) == FirstNamed(e.children, name, 1)

----------------------------------------------------------------------------
(* ColladaError and the outcome of a call.  A call returns Ok(()), returns *)
(* Err(e), or panics (an unwrap of Err, an index out of bounds).           *)

Ok == [kind |-> "Ok"]

Err(e) == [kind |-> "Err", err |-> e]

Panic(why) == [kind |-> "Panic", why |-> why]

ParseError == [type |-> "ParseError"]

Invalid(msg) == [type |-> "Invalid", msg |-> msg]

InvalidChild(child, parent) == [type |-> "InvalidChild", child |-> child, parent |-> parent]

InvalidAttrData(elem, attr, data) ==
    [type |-> "InvalidAttrData", elem |-> elem, attr |-> attr, data |-> data]

InvalidData(elem, data) == [type |-> "InvalidData", elem |-> elem, data |-> data]

MissingElement(structure, elem) ==
    [type |-> "MissingElement", structure |-> structure, elem |-> elem]

MissingAttr(elem, attr) == [type |-> "MissingAttr", elem |-> elem, attr |-> attr]

MissingData(elem) == [type |-> "MissingData", elem |-> elem]

\* what a parse call leaves: the record it was called on, and its outcome
Outcome(self, r) == [self |-> self, res |-> r]

----------------------------------------------------------------------------
(* f32 and i32.                                                            *)
(* A finite f32 is named by the unique factorisation m * 2^p * 5^q         *)
(* (m > 0 coprime to 10, or m = 0) of the decimal that Display prints for  *)
(* it, with its sign.  The naming is exact for the values the conversions  *)
(* meet here: decimals of at most six significant digits (each is the      *)
(* shortest decimal of its own nearest f32), integers below 2^24, and      *)
(* integers below 2^31 rounded to 24 significant bits.                     *)

I32Max == 2147483647

F32Nan == [kind |-> "nan"]

F32Inf(neg) == [kind |-> "inf", neg |-> neg]

F32Fin(neg, m, p, q) == [kind |-> "fin", neg |-> neg, m |-> m, p |-> p, q |-> q]

RECURSIVE StripFactor(_, _)
\* how many times f divides n (n > 0)
StripFactor(n, f) == IF n % f = 0 THEN 1 + StripFactor(n \div f, f) ELSE 0

RECURSIVE Pow(_, _)
Pow(b, n) == IF n = 0 THEN 1 ELSE b * Pow(b, n - 1)

\* a * b, or I32Max when the product exceeds it
MulSat(a, b) == IF a = 0 \/ b = 0 THEN 0 ELSE IF a > I32Max \div b THEN I32Max ELSE a * b

RECURSIVE PowSat(_, _)
PowSat(b, n) == IF n = 0 THEN 1 ELSE MulSat(b, PowSat(b, n - 1))

\* m * 2^p * 5^q for mant * 2^e2 * 5^e5, mant > 0
Factored(neg, mant, twos, fives, e2, e5) ==
    F32Fin(neg, (mant \div Pow(2, twos)) \div Pow(5, fives), e2 + twos, e5 + fives)

\* the f32 with value mant * 10^exp (mant >= 0)
F32OfDecimal(neg, mant, exp) ==
    IF mant = 0 THEN F32Fin(neg, 0, 0, 0)
    ELSE Factored(neg, mant, StripFactor(mant, 2), StripFactor(mant, 5), exp, exp)

\* the f32 with value mant * 2^exp (mant > 0)
F32OfBinary(neg, mant, exp) ==
    Factored(neg, mant, StripFactor(mant, 2), StripFactor(mant, 5), exp, 0)

RECURSIVE BitLen(_)
BitLen(n) == IF n = 0 THEN 0 ELSE 1 + BitLen(n \div 2)

\* q0 * 2^s + r rounded to a multiple of 2^s, half to even
RoundSignificand(neg, s, q0, r, ulp) ==
    F32OfBinary(neg,
                  IF (2 * r > ulp) \/ (2 * r = ulp /\ q0 % 2 = 1) THEN q0 + 1 ELSE q0, s)

RoundTo(neg, n, s, ulp) == RoundSignificand(neg, s, n \div ulp, n % ulp, ulp)

\* the f32 nearest to the integer n, 0 <= n <= I32Max: its 24-bit significand
F32OfInt(neg, n) ==
    IF n < 16777216 THEN F32OfDecimal(neg, n, 0)
    ELSE RoundTo(neg, n, BitLen(n) - 24, Pow(2, BitLen(n) - 24))

Digits == <<"0", "1", "2", "3", "4", "5", "6", "7", "8", "9">>

IsDigit(c) == \E d \in 1..10 : Digits[d] = c

DigitVal(c) == (CHOOSE d \in 1..10 : Digits[d] = c) - 1

RECURSIVE ScanDigits(_, _, _, _)
\* reads the digits of s from index i: [next, val, n], the index after them,
\* the number they spell when appended to acc, how many there are
ScanDigits(s, i, acc, n) ==
    IF i <= Len(s) /\ IsDigit(s[i])
    THEN ScanDigits(s, i + 1, 10 * acc + DigitVal(s[i]), n + 1)
    ELSE [next |-> i, val |-> acc, n |-> n]

\* the fraction after the integer digits ip: its digits extend the mantissa
ScanFraction(s, ip) ==
    IF ip.next <= Len(s) /\ s[ip.next] = "."
    THEN ScanDigits(s, ip.next + 1, ip.val, 0)
    ELSE [next |-> ip.next, val |-> ip.val, n |-> 0]

Negated(d) == [d EXCEPT !.val = 0 - d.val]

\* the exponent at index i, if there is one
ScanExponent(s, i) ==
    IF ~(i <= Len(s) /\ s[i] \in {"e", "E"}) THEN [next |-> i, val |-> 0, n |-> 1]
    ELSE IF i + 1 <= Len(s) /\ s[i + 1] = "-" THEN Negated(ScanDigits(s, i + 2, 0, 0))
    ELSE IF i + 1 <= Len(s) /\ s[i + 1] = "+" THEN ScanDigits(s, i + 2, 0, 0)
    ELSE ScanDigits(s, i + 1, 0, 0)

\* the number read: nd mantissa digits, fp.n of them after the point, the
\* exponent ep; None when s is no number
DecimalToF32(neg, s, nd, fp, ep) ==
    IF nd = 0 \/ ep.n = 0 \/ ep.next # Len(s) + 1 THEN None
    ELSE IF ep.val - fp.n = 0 THEN Some(F32OfInt(neg, fp.val))
    ELSE Some(F32OfDecimal(neg, fp.val, ep.val - fp.n))

ParseFraction(neg, s, ip, fp) ==
    DecimalToF32(neg, s, ip.n + fp.n, fp, ScanExponent(s, fp.next))

ParseDecimal(neg, s, ip) == ParseFraction(neg, s, ip, ScanFraction(s, ip))

ParseUnsigned(neg, s) ==
    IF s = <<"i", "n", "f">> THEN Some(F32Inf(neg))
    ELSE IF s = <<"N", "a", "N">> THEN Some(F32Nan)
    ELSE ParseDecimal(neg, s, ScanDigits(s, 1, 0, 0))

\* str::parse::<f32>(): None is Err(ParseFloatError)
ParseF32(s) ==
    ParseUnsigned(Len(s) > 0 /\ s[1] = "-",
                  IF Len(s) > 0 /\ s[1] \in {"+", "-"} THEN SubSeq(s, 2, Len(s)) ELSE s)

\* `x as i32`: toward zero, saturating, NaN to 0
F32AsI32(x) ==
    IF x.kind = "nan" THEN 0
    ELSE IF x.kind = "inf" THEN (IF x.neg THEN (0 - I32Max) - 1 ELSE I32Max)
    ELSE LET e == IF x.p < x.q THEN x.p ELSE x.q
             mant == MulSat(MulSat(x.m, PowSat(2, x.p - e)), PowSat(5, x.q - e))
             mag == IF e >= 0 THEN MulSat(mant, PowSat(10, e))
                    ELSE IF 0 - e > 9 THEN 0
                    ELSE mant \div Pow(10, 0 - e)
         IN  IF ~x.neg THEN mag
             ELSE IF mag = I32Max THEN (0 - I32Max) - 1
             ELSE 0 - mag

RECURSIVE NatToString(_)
NatToString(n) ==
    IF n < 10 THEN <<Digits[n + 1]>> ELSE Append(NatToString(n \div 10), Digits[(n % 10) + 1])

\* i32::to_string()
I32ToString(n) ==
    IF n >= 0 THEN NatToString(n)
    ELSE LET r == n % 10
             rest == (0 - (n \div 10)) - (IF r # 0 THEN 1 ELSE 0)
             last == Digits[((10 - r) % 10) + 1]
         IN  <<"-">> \o (IF rest = 0 THEN <<>> ELSE NatToString(rest)) \o <<last>>

RECURSIVE Zeros(_)
Zeros(n) == IF n <= 0 THEN <<>> ELSE <<"0">> \o Zeros(n - 1)

\* f32::to_string() and format!("{}", x): Display prints the shortest
\* decimal that reads back as x, without an exponent
F32ToString(x) ==
    IF x.kind = "nan" THEN <<"N", "a", "N">>
    ELSE IF x.kind = "inf" THEN (IF x.neg THEN <<"-">> ELSE <<>>) \o <<"i", "n", "f">>
    ELSE LET e == IF x.p < x.q THEN x.p ELSE x.q
             mant == x.m * Pow(2, x.p - e) * Pow(5, x.q - e)
             ds == NatToString(mant)
             sign == IF x.neg THEN <<"-">> ELSE <<>>
         IN  IF e >= 0 THEN sign \o ds \o (IF mant = 0 THEN <<>> ELSE Zeros(e))
             ELSE IF Len(ds) > 0 - e
                  THEN sign \o SubSeq(ds, 1, Len(ds) + e) \o <<".">>
                            \o SubSeq(ds, Len(ds) + e + 1, Len(ds))
                  ELSE sign \o <<"0", ".">> \o Zeros((0 - e) - Len(ds)) \o ds

----------------------------------------------------------------------------
(* Technique (core/technique.rs) *)

Technique_new ==
    [profile |-> <<>>, xmlns |-> None, data |-> Element("technique", NoAttrs, <<>>, None)]

\* variant: an absent profile is taken as the empty profile
Technique_parse_profile_defaulted(self, e, p) ==
    IF ~IsSome(p) THEN Outcome([self EXCEPT !.data = e], Ok)
    ELSE Outcome([self EXCEPT !.profile = Unwrap(p), !.data = e], Ok)

\* the match on e.attributes.get("profile") and what follows it
Technique_parse_profile(self, e, p) ==
    IF ~IsSome(p) THEN Outcome(self, Err(MissingAttr("technique", "profile")))
    ELSE Outcome([self EXCEPT !.profile = Unwrap(p), !.data = e], Ok)

Technique_parse(self, e) ==
    IF e.name # "technique"
    THEN Outcome(self, Err(MissingElement("technique", "technique")))
    ELSE Technique_parse_profile(self, e, AttrGet(e.attributes, "profile"))

\* variant: the node is rebuilt from the profile, the payload dropped
Technique_encode_rebuilt(self) ==
    Element("technique", Attr1("profile", self.profile), <<>>, None)

\* variant: the profile field is written into the node
Technique_encode_profiled(self) ==
    [self.data EXCEPT !.attributes = AttrInsert(@, "profile", self.profile)]

Technique_encode(self) == self.data

----------------------------------------------------------------------------
(* Contributor (core/contributor.rs) *)

Contributor_new ==
    [author |-> None, author_email |-> None, author_website |-> None,
     authoring_tool |-> None, comments |-> None, copyright |-> None,
     source_data |-> None]

\* variant: the author_email arm assigns author
Contributor_parse_field_author(self, name, text) ==
    CASE name = "author" -> Outcome([self EXCEPT !.author = Some(text)], Ok)
      [] name = "author_email" -> Outcome([self EXCEPT !.author = Some(text)], Ok)
      [] name = "author_website" -> Outcome([self EXCEPT !.author_website = Some(text)], Ok)
      [] name = "authoring_tool" -> Outcome([self EXCEPT !.authoring_tool = Some(text)], Ok)
      [] name = "comments" -> Outcome([self EXCEPT !.comments = Some(text)], Ok)
      [] name = "copyright" -> Outcome([self EXCEPT !.copyright = Some(text)], Ok)
      [] name = "source_data" -> Outcome([self EXCEPT !.source_data = Some(text)], Ok)
      [] OTHER -> Outcome(self, Err(InvalidChild(name, "contributor")))

\* the match on c.name: one field set, or InvalidChild
Contributor_parse_field(self, name, text) ==
    CASE name = "author" -> Outcome([self EXCEPT !.author = Some(text)], Ok)
      [] name = "author_email" -> Outcome([self EXCEPT !.author_email = Some(text)], Ok)
      [] name = "author_website" -> Outcome([self EXCEPT !.author_website = Some(text)], Ok)
      [] name = "authoring_tool" -> Outcome([self EXCEPT !.authoring_tool = Some(text)], Ok)
      [] name = "comments" -> Outcome([self EXCEPT !.comments = Some(text)], Ok)
      [] name = "copyright" -> Outcome([self EXCEPT !.copyright = Some(text)], Ok)
      [] name = "source_data" -> Outcome([self EXCEPT !.source_data = Some(text)], Ok)
      [] OTHER -> Outcome(self, Err(InvalidChild(name, "contributor")))

\* one turn of the loop over e.children
Contributor_parse_child(self, c) ==
    IF ~IsSome(c.text) THEN Outcome(self, Err(MissingData(c.name)))
    ELSE Contributor_parse_field(self, c.name, Unwrap(c.text))

RECURSIVE Contributor_parse_children(_, _, _)

\* the loop goes on after a turn that did not return
Contributor_parse_next(o, cs, i) ==
    IF o.res.kind = "Ok" THEN Contributor_parse_children(o.self, cs, i + 1) ELSE o

\* the loop over e.children, from child i
Contributor_parse_children(self, cs, i) ==
    IF i > Len(cs) THEN Outcome(self, Ok)
    ELSE Contributor_parse_next(Contributor_parse_child(self, cs[i]), cs, i)

Contributor_parse(self, e) ==
    IF e.name # "contributor"
    THEN Outcome(self, Err(MissingElement("contributor", "contributor")))
    ELSE Contributor_parse_children(self, e.children, 1)

\* one child per set field
TextChild(name, field) ==
    IF IsSome(field) THEN <<Element(name, NoAttrs, <<>>, field)>> ELSE <<>>

Contributor_encode(self) ==
    Element("contributor", NoAttrs,
            TextChild("author", self.author)
            \o TextChild("author_email", self.author_email)
            \o TextChild("author_website", self.author_website)
            \o TextChild("authoring_tool", self.authoring_tool)
            \o TextChild("comments", self.comments)
            \o TextChild("copyright", self.copyright)
            \o TextChild("source_data", self.source_data),
            None)

----------------------------------------------------------------------------
(* AltitudeMode and Location (core/location.rs) *)

S_absolute == <<"a", "b", "s", "o", "l", "u", "t", "e">>

S_relativeToGround ==
    <<"r", "e", "l", "a", "t", "i", "v", "e", "T", "o", "G", "r", "o", "u", "n", "d">>

\* impl fmt::Display for AltitudeMode
AltitudeMode_fmt(mode) ==
    IF mode = "RelativeToGround" THEN S_relativeToGround ELSE S_absolute

F32Zero == F32Fin(FALSE, 0, 0, 0)

Location_new ==
    [longitude |-> F32Zero, latitude |-> F32Zero, altitude |-> F32Zero,
     mode |-> "RelativeToGround"]

\* variant: any mode other than absolute is read as relativeToGround
Location_parse_mode_lenient(self, m) ==
    IF ~IsSome(m) THEN Outcome(self, Err(MissingAttr("altitude", "mode")))
    ELSE IF Unwrap(m) = S_absolute THEN Outcome([self EXCEPT !.mode = "Absolute"], Ok)
    ELSE Outcome([self EXCEPT !.mode = "RelativeToGround"], Ok)

\* the match on c.attributes.get("mode"); self already holds the altitude
Location_parse_mode(self, m) ==
    IF ~IsSome(m) THEN Outcome(self, Err(MissingAttr("altitude", "mode")))
    ELSE IF Unwrap(m) = S_absolute THEN Outcome([self EXCEPT !.mode = "Absolute"], Ok)
    ELSE IF Unwrap(m) = S_relativeToGround
    THEN Outcome([self EXCEPT !.mode = "RelativeToGround"], Ok)
    ELSE Outcome(self, Err(InvalidAttrData("altitude", "mode", Unwrap(m))))

\* the match on c.name; num is text.parse::<f32>(), unwrapped in each arm
Location_parse_field(self, c, num) ==
    CASE c.name = "longitude" ->
           IF ~IsSome(num) THEN Outcome(self, Panic("unwrap"))
           ELSE Outcome([self EXCEPT !.longitude = Unwrap(num)], Ok)
      [] c.name = "latitude" ->
           IF ~IsSome(num) THEN Outcome(self, Panic("unwrap"))
           ELSE Outcome([self EXCEPT !.latitude = Unwrap(num)], Ok)
      [] c.name = "altitude" ->
           IF ~IsSome(num) THEN Outcome(self, Panic("unwrap"))
           ELSE Location_parse_mode([self EXCEPT !.altitude = Unwrap(num)],
                                    AttrGet(c.attributes, "mode"))
      [] OTHER -> Outcome(self, Err(InvalidChild(c.name, "geographic_location")))

\* one turn of the loop over geo.children
Location_parse_child(self, c) ==
    IF ~IsSome(c.text) THEN Outcome(self, Err(MissingData(c.name)))
    ELSE Location_parse_field(self, c, ParseF32(Unwrap(c.text)))

RECURSIVE Location_parse_children(_, _, _)

Location_parse_next(o, cs, i) ==
    IF o.res.kind = "Ok" THEN Location_parse_children(o.self, cs, i + 1) ELSE o

\* the loop over geo.children, from child i
Location_parse_children(self, cs, i) ==
    IF i > Len(cs) THEN Outcome(self, Ok)
    ELSE Location_parse_next(Location_parse_child(self, cs[i]), cs, i)

\* the checks on geo = e.children[0] and the loop
Location_parse_geo(self, geo) ==
    IF Len(geo.children) # 3
    THEN Outcome(self, Err(Invalid("<geographic_location> element must have 3 children: <longitude>, <latitude>, <altitude>")))
    ELSE Location_parse_children(self, geo.children, 1)

\* e.children.len() != 1 && e.children[0].name != "geographic_location":
\* the index panics on an empty list
Location_parse(self, e) ==
    IF e.name # "coverage"
    THEN Outcome(self, Err(MissingElement("location", "coverage")))
    ELSE IF Len(e.children) # 1 /\ Len(e.children) = 0
    THEN Outcome(self, Panic("index out of bounds"))
    ELSE IF Len(e.children) # 1 /\ e.children[1].name # "geographic_location"
    THEN Outcome(self, Err(MissingElement("location", "geographic_location")))
    ELSE Location_parse_geo(self, e.children[1])

\* variant: the altitude is written with its fraction
Location_encode_altitude_full(self) ==
    Element("altitude", Attr1("mode", AltitudeMode_fmt(self.mode)), <<>>,
            Some(F32ToString(self.altitude)))

\* the altitude element of Location::encode
Location_encode_altitude(self) ==
    Element("altitude", Attr1("mode", AltitudeMode_fmt(self.mode)), <<>>,
            Some(I32ToString(F32AsI32(self.altitude))))

Location_encode(self) ==
    Element("coverage", NoAttrs,
            <<Element("geographic_location", NoAttrs,
                      <<Element("longitude", NoAttrs, <<>>, Some(F32ToString(self.longitude))),
                        Element("latitude", NoAttrs, <<>>, Some(F32ToString(self.latitude))),
                        Location_encode_altitude(self)>>,
                      None)>>,
            None)

----------------------------------------------------------------------------
(* Unit, UpAxis, Asset (core/asset.rs) and Extra (core/extra.rs) *)

S_meter == <<"m", "e", "t", "e", "r">>

S_X_UP == <<"X", "_", "U", "P">>

S_Y_UP == <<"Y", "_", "U", "P">>

S_Z_UP == <<"Z", "_", "U", "P">>

Unit_new == [name |-> Some(S_meter), meter |-> Some(F32OfInt(FALSE, 1))]

\* variant: Z_UP is written as the default Y_UP
UpAxis_fmt_defaulted(axis) ==
    CASE axis = "XUP" -> S_X_UP
      [] axis = "YUP" -> S_Y_UP
      [] axis = "ZUP" -> S_Y_UP

\* impl fmt::Display for UpAxis
UpAxis_fmt(axis) ==
    CASE axis = "XUP" -> S_X_UP
      [] axis = "YUP" -> S_Y_UP
      [] axis = "ZUP" -> S_Z_UP

Asset_new ==
    [contributors |-> <<>>, location |-> None, created |-> <<>>, keywords |-> <<>>,
     modified |-> <<>>, revision |-> None, subject |-> None, title |-> None,
     unit |-> None, up_axis |-> None, extras |-> <<>>]

Extra_new == [id |-> None, name |-> None, typ |-> None, asset |-> None, techniques |-> <<>>]

IsWhitespace(c) == c \in {" ", "\t", "\n", "\r"}

RECURSIVE SplitWhitespace(_, _, _)
\* str::split_whitespace(): the maximal whitespace-free runs of t from index
\* i, cur being the run read so far
SplitWhitespace(t, i, cur) ==
    IF i > Len(t) THEN (IF cur = <<>> THEN <<>> ELSE <<cur>>)
    ELSE IF IsWhitespace(t[i])
    THEN (IF cur = <<>> THEN <<>> ELSE <<cur>>) \o SplitWhitespace(t, i + 1, <<>>)
    ELSE SplitWhitespace(t, i + 1, Append(cur, t[i]))

RECURSIVE Asset_parse_children(_, _, _)
RECURSIVE Extra_parse_children(_, _, _)

\* variant: without a meter attribute the constructor's meter stays
Unit_parse_meter_defaulted(u, m, meter) ==
    IF ~IsSome(m) THEN Some(u)
    ELSE IF ~IsSome(meter) THEN None
    ELSE Some([u EXCEPT !.meter = meter])

\* the unit built by the "unit" arm; meter is the attribute parsed as f32
Unit_parse_meter(u, m, meter) ==
    IF ~IsSome(m) THEN Some([u EXCEPT !.meter = None])
    ELSE IF ~IsSome(meter) THEN None
    ELSE Some([u EXCEPT !.meter = meter])

\* the "unit" arm of Asset::parse: Some(unit), or None when the unwrap panics
Unit_parse(c) ==
    Unit_parse_meter([Unit_new EXCEPT !.name = AttrGet(c.attributes, "name")],
                     AttrGet(c.attributes, "meter"),
                     IF "meter" \in DOMAIN c.attributes THEN ParseF32(c.attributes["meter"])
                     ELSE None)

Asset_parse(self, e) == Asset_parse_children(self, e.children, 1)

\* variant: no check that a technique child is there
Extra_parse_techniques_unchecked(self, e, a_node, a) ==
    IF a.res.kind # "Ok" THEN Outcome(self, a.res)
    ELSE Extra_parse_children(
             IF IsSome(a_node) THEN [self EXCEPT !.asset = Some(a.self)] ELSE self,
             e.children, 1)

\* Extra::parse after the nested asset, parsed as a
Extra_parse_techniques(self, e, a_node, a) ==
    IF a.res.kind # "Ok" THEN Outcome(self, a.res)
    ELSE IF ~IsSome(GetChild(e, "technique"))
    THEN Outcome(IF IsSome(a_node) THEN [self EXCEPT !.asset = Some(a.self)] ELSE self,
                 Err(MissingElement("extra", "technique")))
    ELSE Extra_parse_children(
             IF IsSome(a_node) THEN [self EXCEPT !.asset = Some(a.self)] ELSE self,
             e.children, 1)

\* Extra::parse from the match on e.get_child("asset")
Extra_parse_asset(self, e, a_node) ==
    Extra_parse_techniques(self, e, a_node,
                           IF IsSome(a_node) THEN Asset_parse(Asset_new, Unwrap(a_node))
                           ELSE Outcome(Asset_new, Ok))

Extra_parse(self, e) ==
    Extra_parse_asset([self EXCEPT !.id = AttrGet(e.attributes, "id"),
                                   !.name = AttrGet(e.attributes, "name"),
                                   !.typ = AttrGet(e.attributes, "type")],
                      e, GetChild(e, "asset"))

\* variant: the technique is put in front of the list
Extra_push_technique_front(self, t) ==
    IF t.res.kind # "Ok" THEN Outcome(self, t.res)
    ELSE Outcome([self EXCEPT !.techniques = <<t.self>> \o @], Ok)

\* try!(t.parse(c)); self.techniques.push(t)
Extra_push_technique(self, t) ==
    IF t.res.kind # "Ok" THEN Outcome(self, t.res)
    ELSE Outcome([self EXCEPT !.techniques = Append(@, t.self)], Ok)

\* one turn of the loop over e.children of Extra::parse
Extra_parse_child(self, c) ==
    CASE c.name = "technique" -> Extra_push_technique(self, Technique_parse(Technique_new, c))
      [] c.name = "asset" -> Outcome(self, Ok)
      [] OTHER -> Outcome(self, Err(InvalidChild(c.name, "extra")))

Extra_parse_next(o, cs, i) ==
    IF o.res.kind = "Ok" THEN Extra_parse_children(o.self, cs, i + 1) ELSE o

\* the loop over e.children of Extra::parse, from child i
Extra_parse_children(self, cs, i) ==
    IF i > Len(cs) THEN Outcome(self, Ok)
    ELSE Extra_parse_next(Extra_parse_child(self, cs[i]), cs, i)

\* variant: a contributor that fails is left out and the loop goes on
Asset_push_contributor_skipping(self, b) ==
    IF b.res.kind # "Ok" THEN Outcome(self, Ok)
    ELSE Outcome([self EXCEPT !.contributors = Append(@, b.self)], Ok)

\* try!(b.parse(c)); self.contributors.push(b)
Asset_push_contributor(self, b) ==
    IF b.res.kind # "Ok" THEN Outcome(self, b.res)
    ELSE Outcome([self EXCEPT !.contributors = Append(@, b.self)], Ok)

\* variant: a location that is already set is kept
Asset_set_location_first(self, l) ==
    IF l.res.kind # "Ok" THEN Outcome(self, l.res)
    ELSE IF IsSome(self.location) THEN Outcome(self, Ok)
    ELSE Outcome([self EXCEPT !.location = Some(l.self)], Ok)

\* try!(l.parse(c)); self.location = Some(l)
Asset_set_location(self, l) ==
    IF l.res.kind # "Ok" THEN Outcome(self, l.res)
    ELSE Outcome([self EXCEPT !.location = Some(l.self)], Ok)

\* try!(x.parse(c)); self.extras.push(x)
Asset_push_extra(self, x) ==
    IF x.res.kind # "Ok" THEN Outcome(self, x.res)
    ELSE Outcome([self EXCEPT !.extras = Append(@, x.self)], Ok)

\* self.unit = Some(u), unless building u panicked
Asset_set_unit(self, u) ==
    IF ~IsSome(u) THEN Outcome(self, Panic("unwrap"))
    ELSE Outcome([self EXCEPT !.unit = u], Ok)

\* the match on t of the "up_axis" arm
Asset_parse_up_axis(self, t) ==
    IF t = S_X_UP THEN Outcome([self EXCEPT !.up_axis = Some("XUP")], Ok)
    ELSE IF t = S_Y_UP THEN Outcome([self EXCEPT !.up_axis = Some("YUP")], Ok)
    ELSE IF t = S_Z_UP THEN Outcome([self EXCEPT !.up_axis = Some("ZUP")], Ok)
    ELSE Outcome(self, Err(InvalidData("up_axis", t)))

\* the second match on c.name, on the children that carry text t
Asset_parse_text(self, name, t) ==
    CASE name = "created" -> Outcome([self EXCEPT !.created = t], Ok)
      [] name = "keywords" ->
           Outcome([self EXCEPT !.keywords = @ \o SplitWhitespace(t, 1, <<>>)], Ok)
      [] name = "modified" -> Outcome([self EXCEPT !.modified = t], Ok)
      [] name = "revision" -> Outcome([self EXCEPT !.revision = Some(t)], Ok)
      [] name = "subject" -> Outcome([self EXCEPT !.subject = Some(t)], Ok)
      [] name = "title" -> Outcome([self EXCEPT !.title = Some(t)], Ok)
      [] name = "up_axis" -> Asset_parse_up_axis(self, t)
      [] OTHER -> Outcome(self, Err(InvalidChild(name, "asset")))

\* one turn of the loop over e.children of Asset::parse
Asset_parse_child(self, c) ==
    CASE c.name = "contributor" ->
           Asset_push_contributor(self, Contributor_parse(Contributor_new, c))
      [] c.name = "coverage" -> Asset_set_location(self, Location_parse(Location_new, c))
      [] c.name = "extra" -> Asset_push_extra(self, Extra_parse(Extra_new, c))
      [] c.name = "unit" -> Asset_set_unit(self, Unit_parse(c))
      [] OTHER ->
           IF ~IsSome(c.text) THEN Outcome(self, Err(MissingData(c.name)))
           ELSE Asset_parse_text(self, c.name, Unwrap(c.text))

Asset_parse_next(o, cs, i) ==
    IF o.res.kind = "Ok" THEN Asset_parse_children(o.self, cs, i + 1) ELSE o

\* the loop over e.children of Asset::parse, from child i
Asset_parse_children(self, cs, i) ==
    IF i > Len(cs) THEN Outcome(self, Ok)
    ELSE Asset_parse_next(Asset_parse_child(self, cs[i]), cs, i)

RECURSIVE JoinKeywords(_, _)
\* the keyword loop of Asset::encode: each keyword followed by a blank
JoinKeywords(kws, i) ==
    IF i > Len(kws) THEN <<>> ELSE kws[i] \o <<" ">> \o JoinKeywords(kws, i + 1)

\* variant: the blank after the last keyword stays
StringPop_kept(s) == s

\* String::pop()
StringPop(s) == IF s = <<>> THEN s ELSE SubSeq(s, 1, Len(s) - 1)

\* attributes.insert(key, v) when the field is set
InsertIfSome(attrs, key, v) == IF IsSome(v) THEN AttrInsert(attrs, key, Unwrap(v)) ELSE attrs

Unit_encode(x) ==
    Element("unit",
            InsertIfSome(InsertIfSome(NoAttrs, "name", x.name), "meter",
                              IF IsSome(x.meter) THEN Some(F32ToString(Unwrap(x.meter)))
                              ELSE None),
            <<>>, None)

RECURSIVE Asset_encode(_)
RECURSIVE Extra_encode(_)

RECURSIVE EncodeContributors(_, _)
EncodeContributors(cs, i) ==
    IF i > Len(cs) THEN <<>> ELSE <<Contributor_encode(cs[i])>> \o EncodeContributors(cs, i + 1)

RECURSIVE EncodeExtras(_, _)
EncodeExtras(xs, i) ==
    IF i > Len(xs) THEN <<>> ELSE <<Extra_encode(xs[i])>> \o EncodeExtras(xs, i + 1)

RECURSIVE EncodeTechniques(_, _)
EncodeTechniques(ts, i) ==
    IF i > Len(ts) THEN <<>> ELSE <<Technique_encode(ts[i])>> \o EncodeTechniques(ts, i + 1)

\* variant: keywords is written only when there are keywords, and unit
\* after up_axis
Asset_encode_reordered(self) ==
    Element("asset", NoAttrs,
            EncodeContributors(self.contributors, 1)
            \o (IF IsSome(self.location) THEN <<Location_encode(Unwrap(self.location))>> ELSE <<>>)
            \o <<Element("created", NoAttrs, <<>>, Some(self.created))>>
            \o (IF self.keywords # <<>>
                THEN <<Element("keywords", NoAttrs, <<>>,
                               Some(StringPop(JoinKeywords(self.keywords, 1))))>>
                ELSE <<>>)
            \o <<Element("modified", NoAttrs, <<>>, Some(self.modified))>>
            \o TextChild("revision", self.revision)
            \o TextChild("subject", self.subject)
            \o TextChild("title", self.title)
            \o (IF IsSome(self.up_axis)
                THEN <<Element("up_axis", NoAttrs, <<>>, Some(UpAxis_fmt(Unwrap(self.up_axis))))>>
                ELSE <<>>)
            \o (IF IsSome(self.unit) THEN <<Unit_encode(Unwrap(self.unit))>> ELSE <<>>)
            \o EncodeExtras(self.extras, 1),
            None)

Asset_encode(self) ==
    Element("asset", NoAttrs,
            EncodeContributors(self.contributors, 1)
            \o (IF IsSome(self.location) THEN <<Location_encode(Unwrap(self.location))>> ELSE <<>>)
            \o <<Element("created", NoAttrs, <<>>, Some(self.created))>>
            \o <<Element("keywords", NoAttrs, <<>>, Some(StringPop(JoinKeywords(self.keywords, 1))))>>
            \o <<Element("modified", NoAttrs, <<>>, Some(self.modified))>>
            \o TextChild("revision", self.revision)
            \o TextChild("subject", self.subject)
            \o TextChild("title", self.title)
            \o (IF IsSome(self.unit) THEN <<Unit_encode(Unwrap(self.unit))>> ELSE <<>>)
            \o (IF IsSome(self.up_axis)
                THEN <<Element("up_axis", NoAttrs, <<>>, Some(UpAxis_fmt(Unwrap(self.up_axis))))>>
                ELSE <<>>)
            \o EncodeExtras(self.extras, 1),
            None)

\* variant: the type attribute is written under the field's name
Extra_encode_attrs_typ(self) ==
    InsertIfSome(
        InsertIfSome(InsertIfSome(NoAttrs, "id", self.id), "name", self.name),
        "typ", self.typ)

\* the id, name and type attributes, each if set
Extra_encode_attrs(self) ==
    InsertIfSome(
        InsertIfSome(InsertIfSome(NoAttrs, "id", self.id), "name", self.name),
        "type", self.typ)

Extra_encode(self) ==
    Element("extra", Extra_encode_attrs(self),
            (IF IsSome(self.asset) THEN <<Asset_encode(Unwrap(self.asset))>> ELSE <<>>)
            \o EncodeTechniques(self.techniques, 1),
            None)

----------------------------------------------------------------------------
(* The input nodes: every sequence of children, up to a bound, over a pool *)
(* of children that reaches each arm of each parse.                        *)

MaxPayload == 2

MaxContributorChildren == 3

MaxGeoChildren == 4

MaxCoverageChildren == 2

MaxExtraChildren == 3

MaxAssetChildren == 3

SeqsUpTo(S, n) == UNION {[1..k -> S] : k \in 0..n}

Leaf(name, text) == Element(name, NoAttrs, <<>>, text)

S_Max == <<"M", "a", "x">>

S_bad == <<"b", "a", "d">>

PayloadPool ==
    {Element("param", Attr1("sid", <<"s">>), <<>>, Some(<<"v">>)),
     Leaf("uhoh", None),
     Element("max", NoAttrs, <<Leaf("deep", Some(<<"d">>))>>, None)}

TechniqueAttrs ==
    {NoAttrs, Attr1("profile", <<>>), Attr1("profile", S_Max), Attr1("xmlns", <<"u">>),
     AttrInsert(Attr1("profile", <<"f">>), "xmlns", <<"u">>)}

TechniqueInputs ==
    {Element(n, a, cs, t) : n \in {"technique", "tech"}, a \in TechniqueAttrs,
                            cs \in SeqsUpTo(PayloadPool, MaxPayload), t \in {None, Some(<<"t">>)}}

ContributorPool ==
    {Leaf("author", Some(<<"a">>)), Leaf("author", Some(<<"b">>)),
     Leaf("author_email", Some(<<"e">>)), Leaf("comments", Some(<<>>)),
     Leaf("source_data", None), Leaf("bogus", Some(<<"a">>)), Leaf("bogus", None)}

ContributorInputs ==
    {Element(n, NoAttrs, cs, None) :
        n \in {"contributor", "contrib"},
        cs \in SeqsUpTo(ContributorPool, MaxContributorChildren)}

Altitude(text, mode) ==
    Element("altitude", IF IsSome(mode) THEN Attr1("mode", Unwrap(mode)) ELSE NoAttrs,
            <<>>, Some(text))

S_1_5 == <<"1", ".", "5">>

S_m2 == <<"-", "2">>

S_50_9 == <<"5", "0", ".", "9">>

S_m7_9 == <<"-", "7", ".", "9">>

S_inf == <<"i", "n", "f">>

S_NaN == <<"N", "a", "N">>

GeoPool ==
    {Leaf("longitude", Some(S_1_5)), Leaf("longitude", None),
     Leaf("latitude", Some(S_m2)), Leaf("latitude", Some(<<"x">>)),
     Altitude(S_50_9, Some(S_absolute)), Altitude(S_m7_9, Some(S_relativeToGround)),
     Altitude(S_50_9, None), Altitude(S_50_9, Some(S_bad)),
     Altitude(S_inf, Some(S_absolute)), Altitude(S_NaN, Some(S_relativeToGround)),
     Altitude(<<"x">>, None), Leaf("bogus", Some(<<"a">>))}

GeoSmallPool ==
    {Leaf("longitude", Some(S_1_5)), Leaf("latitude", Some(S_m2)),
     Altitude(S_50_9, Some(S_absolute)), Leaf("bogus", None)}

Geo(cs) == Element("geographic_location", NoAttrs, cs, None)

GeoA == Geo(<<Leaf("longitude", Some(S_1_5)), Leaf("latitude", Some(S_m2)),
              Altitude(S_50_9, Some(S_absolute))>>)

GeoB == Geo(<<Altitude(S_m7_9, Some(S_relativeToGround)), Leaf("latitude", Some(S_1_5)),
              Leaf("longitude", Some(S_m2))>>)

CoveragePool ==
    {GeoA, GeoB, [GeoA EXCEPT !.name = "foo"], Leaf("bogus", Some(<<"a">>))}

CoverageChildren ==
    {<<Geo(cs)>> : cs \in [1..3 -> GeoPool] \cup SeqsUpTo(GeoSmallPool, MaxGeoChildren)}
    \cup SeqsUpTo(CoveragePool, MaxCoverageChildren)

LocationInputs ==
    {Element("coverage", NoAttrs, cs, None) : cs \in CoverageChildren}
    \cup {Element("cover", NoAttrs, <<GeoA>>, None)}

Tech(attrs, cs) == Element("technique", attrs, cs, None)

AssetA == Element("asset", NoAttrs,
                  <<Leaf("created", Some(<<"d">>)), Leaf("modified", Some(<<"d">>))>>, None)

AssetB == Element("asset", NoAttrs,
                  <<Leaf("keywords", Some(<<"k", " ", " ", "l">>)),
                    Element("coverage", NoAttrs, <<GeoB>>, None)>>, None)

AssetBad == Element("asset", NoAttrs, <<Leaf("bogus", Some(<<"a">>))>>, None)

ExtraPool ==
    {Tech(Attr1("profile", <<"p">>), <<>>),
     Tech(AttrInsert(Attr1("profile", <<"q">>), "xmlns", <<"u">>), <<Leaf("oh", Some(<<"f">>))>>),
     Tech(NoAttrs, <<>>),
     AssetA, AssetB, AssetBad,
     Leaf("bogus", Some(<<"a">>)), Leaf("bogus", None)}

ExtraAttrs ==
    {NoAttrs, Attr1("id", <<"i">>),
     AttrInsert(AttrInsert(Attr1("id", <<"i">>), "name", <<"n">>), "type", <<"t">>)}

ExtraInputs ==
    {Element("extra", a, cs, None) :
        a \in ExtraAttrs, cs \in SeqsUpTo(ExtraPool, MaxExtraChildren)}

Coverage(cs) == Element("coverage", NoAttrs, <<Geo(cs)>>, None)

AssetPool ==
    {Element("contributor", NoAttrs,
             <<Leaf("comments", Some(<<"c">>)), Leaf("author", Some(<<"a">>))>>, None),
     Element("contributor", NoAttrs, <<Leaf("bogus", Some(<<"a">>))>>, None),
     Coverage(<<Leaf("longitude", Some(S_1_5)), Leaf("latitude", Some(S_m2)),
                Altitude(S_inf, Some(S_relativeToGround))>>),
     Coverage(<<Leaf("longitude", Some(S_NaN)), Leaf("latitude", Some(S_m2)),
                Altitude(S_NaN, Some(S_absolute))>>),
     Element("coverage", NoAttrs, <<>>, None),
     Element("extra", AttrInsert(Attr1("id", <<"i">>), "type", <<"t">>),
             <<Tech(Attr1("profile", <<"p">>), <<>>)>>, None),
     Element("extra", NoAttrs,
             <<Tech(Attr1("profile", <<"p">>), <<Leaf("oh", Some(<<"f">>))>>), AssetB,
               Tech(Attr1("profile", <<"q">>), <<>>)>>, None),
     Element("extra", NoAttrs, <<AssetA>>, None),
     Element("unit", AttrInsert(Attr1("name", S_meter), "meter", <<"1", ".", "3", "3">>),
             <<>>, None),
     Element("unit", Attr1("name", <<"f", "t">>), <<>>, None),
     Element("unit", Attr1("meter", <<"x">>), <<>>, None),
     Element("unit", Attr1("meter", <<"2">>), <<>>, None),
     Leaf("created", Some(<<"d", "1">>)),
     Leaf("created", Some(<<"d", "3">>)),
     Leaf("modified", Some(<<"d", "2">>)),
     Leaf("modified", Some(<<"d", "4">>)),
     Leaf("keywords", Some(<<" ", "a", " ", " ", "b", "\n">>)),
     Leaf("revision", Some(<<"r">>)),
     Leaf("subject", Some(<<"s">>)),
     Leaf("title", Some(<<"t", " ", "t">>)),
     Leaf("up_axis", Some(S_X_UP)),
     Leaf("up_axis", Some(S_Y_UP)),
     Leaf("up_axis", Some(S_Z_UP)),
     Leaf("up_axis", Some(<<"y", "_", "u", "p">>)),
     Leaf("bogus", Some(<<"a">>)),
     Leaf("bogus", None)}

AssetInputs ==
    {Element("asset", NoAttrs, cs, None) : cs \in SeqsUpTo(AssetPool, MaxAssetChildren)}

Targets == {"technique", "contributor", "location", "extra", "asset"}

Inputs(t) ==
    CASE t = "technique" -> TechniqueInputs
      [] t = "contributor" -> ContributorInputs
      [] t = "location" -> LocationInputs
      [] t = "extra" -> ExtraInputs
      [] t = "asset" -> AssetInputs

----------------------------------------------------------------------------
(* The conversions as steps: parse on a fresh record, encode of the record *)
(* a successful parse produced, parse of the encoded tree on a second      *)
(* fresh record.                                                           *)

New(t) ==
    CASE t = "technique" -> Technique_new
      [] t = "contributor" -> Contributor_new
      [] t = "location" -> Location_new
      [] t = "extra" -> Extra_new
      [] t = "asset" -> Asset_new

NotRun == [kind |-> "NotRun"]

Init ==
    /\ target \in Targets
    /\ node \in Inputs(target)
    /\ pc = "start"
    /\ rec = New(target)
    /\ res = NotRun
    /\ out = None
    /\ rec2 = New(target)
    /\ res2 = NotRun

Parsed(o) ==
    /\ pc = "start"
    /\ rec' = o.self
    /\ res' = o.res
    /\ pc' = "parsed"
    /\ UNCHANGED <<target, node, out, rec2, res2>>

Encoded(e) ==
    /\ pc = "parsed"
    /\ res.kind = "Ok"
    /\ out' = Some(e)
    /\ pc' = "encoded"
    /\ UNCHANGED <<target, node, rec, res, rec2, res2>>

Reparsed(o) ==
    /\ pc = "encoded"
    /\ rec2' = o.self
    /\ res2' = o.res
    /\ pc' = "reparsed"
    /\ UNCHANGED <<target, node, rec, res, out>>

TechniqueParse == target = "technique" /\ Parsed(Technique_parse(rec, node))

TechniqueEncode == target = "technique" /\ Encoded(Technique_encode(rec))

TechniqueReparse == target = "technique" /\ Reparsed(Technique_parse(rec2, Unwrap(out)))

ContributorParse == target = "contributor" /\ Parsed(Contributor_parse(rec, node))

ContributorEncode == target = "contributor" /\ Encoded(Contributor_encode(rec))

ContributorReparse == target = "contributor" /\ Reparsed(Contributor_parse(rec2, Unwrap(out)))

LocationParse == target = "location" /\ Parsed(Location_parse(rec, node))

LocationEncode == target = "location" /\ Encoded(Location_encode(rec))

LocationReparse == target = "location" /\ Reparsed(Location_parse(rec2, Unwrap(out)))

ExtraParse == target = "extra" /\ Parsed(Extra_parse(rec, node))

ExtraEncode == target = "extra" /\ Encoded(Extra_encode(rec))

ExtraReparse == target = "extra" /\ Reparsed(Extra_parse(rec2, Unwrap(out)))

AssetParse == target = "asset" /\ Parsed(Asset_parse(rec, node))

AssetEncode == target = "asset" /\ Encoded(Asset_encode(rec))

AssetReparse == target = "asset" /\ Reparsed(Asset_parse(rec2, Unwrap(out)))

\* The fields of Technique are public: a caller builds a record by hand from
\* Technique::new(), setting profile and xmlns and either leaving the default
\* payload or putting a node in its place.
ConstructedProfiles == {<<>>, <<"f">>, S_Max}

ConstructedXmlns == {None, Some(<<"u">>)}

TechniqueConstruct ==
    /\ target = "technique"
    /\ pc = "start"
    /\ \E p \in ConstructedProfiles, x \in ConstructedXmlns, d \in {Technique_new.data, node} :
          rec' = [Technique_new EXCEPT !.profile = p, !.xmlns = x, !.data = d]
    /\ pc' = "constructed"
    /\ UNCHANGED <<target, node, res, out, rec2, res2>>

\* encode of the hand-built record
TechniqueEncodeConstructed ==
    /\ target = "technique"
    /\ pc = "constructed"
    /\ out' = Some(Technique_encode(rec))
    /\ pc' = "encoded_constructed"
    /\ UNCHANGED <<target, node, rec, res, rec2, res2>>

\* parse of what encode made of the hand-built record, on a fresh record
TechniqueReparseConstructed ==
    /\ target = "technique"
    /\ pc = "encoded_constructed"
    /\ rec2' = Technique_parse(rec2, Unwrap(out)).self
    /\ res2' = Technique_parse(rec2, Unwrap(out)).res
    /\ pc' = "reparsed_constructed"
    /\ UNCHANGED <<target, node, rec, res, out>>

Next ==
    \/ TechniqueParse
    \/ TechniqueEncode
    \/ TechniqueReparse
    \/ ContributorParse
    \/ ContributorEncode
    \/ ContributorReparse
    \/ LocationParse
    \/ LocationEncode
    \/ LocationReparse
    \/ ExtraParse
    \/ ExtraEncode
    \/ ExtraReparse
    \/ AssetParse
    \/ AssetEncode
    \/ AssetReparse
    \/ TechniqueConstruct
    \/ TechniqueEncodeConstructed
    \/ TechniqueReparseConstructed

Spec == Init /\ [][Next]_vars

----------------------------------------------------------------------------
(* The conversion contract (traits.rs), by record type *)

Parse(t, self, e) ==
    CASE t = "technique" -> Technique_parse(self, e)
      [] t = "contributor" -> Contributor_parse(self, e)
      [] t = "location" -> Location_parse(self, e)
      [] t = "extra" -> Extra_parse(self, e)
      [] t = "asset" -> Asset_parse(self, e)

\* parse on a fresh record returns Ok
ParseOk(t, e) == Parse(t, New(t), e).res.kind = "Ok"

----------------------------------------------------------------------------
(* What the properties below speak of *)

HasRun == pc \in {"parsed", "encoded", "reparsed"}

HasEncoded == pc \in {"encoded", "reparsed"}

RemoveAt(s, i) == SubSeq(s, 1, i - 1) \o SubSeq(s, i + 1, Len(s))

InsertAt(s, i, x) == SubSeq(s, 1, i - 1) \o <<x>> \o SubSeq(s, i, Len(s))

WithChildren(e, cs) == [e EXCEPT !.children = cs]

RECURSIVE Named(_, _)
\* the children tagged name, in order
Named(cs, name) ==
    IF cs = <<>> THEN <<>>
    ELSE (IF Head(cs).name = name THEN <<Head(cs)>> ELSE <<>>) \o Named(Tail(cs), name)

Last(s) == s[Len(s)]

\* x truncated toward zero to an integer, as a number (-0 and 0 are the
\* same number)
Truncated(x) ==
    IF x.kind # "fin" THEN x
    ELSE IF x.p >= 0 /\ x.q >= 0 THEN x
    ELSE LET e == IF x.p < x.q THEN x.p ELSE x.q
             mant == x.m * Pow(2, x.p - e) * Pow(5, x.q - e)
             int == IF 0 - e > 9 THEN 0 ELSE mant \div Pow(10, 0 - e)
         IN  F32OfDecimal(x.neg /\ int # 0, int, 0)

\* |x| >= 2^31, for a finite integer-valued x
Beyond31(x) ==
    x.p >= 0 /\ x.q >= 0
    /\ MulSat(MulSat(x.m, PowSat(2, x.p)), PowSat(5, x.q)) = I32Max

\* x truncated toward zero and saturated to the i32 range, NaN becoming 0,
\* as the f32 that reads it back (2^31 for i32::MAX)
SaturatedTruncated(x) ==
    IF x.kind = "nan" THEN F32Zero
    ELSE IF x.kind = "inf" \/ Beyond31(x) THEN F32Fin(x.neg, 1, 31, 0)
    ELSE Truncated(x)

RECURSIVE AltitudesIn(_, _)
\* the asset record a with every Location.altitude x replaced by
\* conv[x], in its own location and in its extras' nested assets
AltitudesIn(a, conv) ==
    [a EXCEPT !.location = IF IsSome(@) THEN Some([@[1] EXCEPT !.altitude = conv[@]]) ELSE @,
              !.extras = [i \in DOMAIN @ |->
                            [@[i] EXCEPT !.asset = IF IsSome(@) THEN Some(AltitudesIn(@[1], conv))
                                                   ELSE @]]]

RECURSIVE Altitudes(_)
\* the altitudes of the asset record a: its own and its nested assets'
Altitudes(a) ==
    (IF IsSome(a.location) THEN {a.location[1].altitude} ELSE {})
    \cup UNION {IF IsSome(a.extras[i].asset) THEN Altitudes(a.extras[i].asset[1]) ELSE {} :
                  i \in DOMAIN a.extras}

----------------------------------------------------------------------------
(* C1  Round trip of Asset: parse(encode(R)) on a fresh record succeeds    *)
(* and equals R but for the altitudes.                                     *)

\* C1 as claimed: for every record R that Asset.parse produced on a fresh
\* Asset, parsing encode(R) on a fresh Asset succeeds and yields R with every
\* Location.altitude replaced by its integer truncation.
C1_RoundTripTruncated ==
    (target = "asset" /\ pc = "reparsed") =>
        /\ res2 = Ok
        /\ rec2 = AltitudesIn(rec, [x \in Altitudes(rec) |-> Truncated(x)])

\* C1 amended: the same, every Location.altitude being replaced by its
\* truncation toward zero saturated to the i32 range (2^31 once read back
\* as f32), NaN by 0.
C1_RoundTripSaturated ==
    (target = "asset" /\ pc = "reparsed") =>
        /\ res2 = Ok
        /\ rec2 = AltitudesIn(rec, [x \in Altitudes(rec) |-> SaturatedTruncated(x)])

\* a round trip of a record with a contributor, a location whose altitude
\* the cast saturates, and an extra with a nested asset that has a location
C1_Witness ==
    /\ target = "asset"
    /\ pc = "reparsed"
    /\ res2 = Ok
    /\ Len(rec.contributors) = 1
    /\ IsSome(rec.location)
    /\ rec.location[1].altitude.kind = "inf"
    /\ rec2.location[1].altitude = F32Fin(FALSE, 1, 31, 0)
    /\ Len(rec.extras) = 1
    /\ IsSome(rec.extras[1].asset)
    /\ IsSome(rec.extras[1].asset[1].location)
    /\ rec2.extras[1].asset[1].location[1].altitude # rec.extras[1].asset[1].location[1].altitude

----------------------------------------------------------------------------
(* C2  Technique payload fidelity *)

\* C2: for every node tagged technique that carries a profile attribute,
\* Technique.parse succeeds and the following Technique.encode returns a node
\* identical to the input node.
C2_TechniquePayloadFidelity ==
    (target = "technique" /\ node.name = "technique" /\ "profile" \in DOMAIN node.attributes) =>
        /\ HasRun => res = Ok
        /\ HasEncoded => out = Some(node)

\* a payload with text, a second attribute, and a child that has a child
C2_Witness ==
    /\ target = "technique"
    /\ pc = "encoded"
    /\ out = Some(node)
    /\ IsSome(node.text)
    /\ DOMAIN node.attributes = {"profile", "xmlns"}
    /\ \E i \in DOMAIN node.children : node.children[i].children # <<>>

----------------------------------------------------------------------------
(* C3  Unknown-child law *)

ContributorTags ==
    {"author", "author_email", "author_website", "authoring_tool", "comments",
     "copyright", "source_data"}

AssetTags ==
    {"contributor", "coverage", "created", "keywords", "modified", "revision",
     "subject", "title", "unit", "up_axis", "extra"}

ExtraTags == {"technique", "asset"}

\* the tags record type t recognises among the children of its node
RecognisedTags(t) ==
    CASE t = "contributor" -> ContributorTags
      [] t = "location" -> {"geographic_location"}
      [] t = "extra" -> ExtraTags
      [] t = "asset" -> AssetTags
      [] t = "technique" -> {}

\* the container tag of record type t
ContainerTag(t) == IF t = "location" THEN "coverage" ELSE t

\* the error is an InvalidChild naming the tag
IsInvalidChildNaming(r, tag) ==
    r.kind = "Err" /\ r.err.type = "InvalidChild" /\ r.err.child = tag

\* child i of the node is unrecognised by the record, which accepts the
\* node without it
InjectedAt(i) ==
    /\ node.children[i].name \notin RecognisedTags(target)
    /\ ParseOk(target, WithChildren(node, RemoveAt(node.children, i)))

\* C3 as claimed: for each of Contributor, Location, Extra and Asset, a node
\* the record accepts, with one child of an unrecognised tag added at any
\* position (with or without text), is rejected with InvalidChild naming
\* that tag and, as parent, the record's container tag.
C3_UnknownChildLaw ==
    (HasRun /\ target \in {"contributor", "location", "extra", "asset"}) =>
        \A i \in DOMAIN node.children :
            InjectedAt(i) =>
                /\ IsInvalidChildNaming(res, node.children[i].name)
                /\ res.err.parent \in {ContainerTag(target), "geographic_location"}

----------------------------------------------------------------------------
(* C4  created and modified are mandatory *)

\* the asset node lacks a child tagged name, and Asset accepts the node once
\* such a child is put back at the front
RemovedFromAsset(name) ==
    /\ Named(node.children, name) = <<>>
    /\ ParseOk("asset", WithChildren(node, <<Leaf(name, Some(<<"d">>))>> \o node.children))

\* the failure is a missing-element or missing-data one naming the element
IsMissingNaming(r, name) ==
    /\ r.kind = "Err"
    /\ r.err.type \in {"MissingElement", "MissingData"}
    /\ r.err.elem = name

\* C4 as claimed: an asset node that Asset.parse accepts, with its created
\* child (or its modified child) removed, is rejected with a missing-element
\* or missing-data failure naming the removed element.
C4_CreatedModifiedMandatory ==
    (HasRun /\ target = "asset") =>
        \A name \in {"created", "modified"} :
            RemovedFromAsset(name) => IsMissingNaming(res, name)

----------------------------------------------------------------------------
(* C5  An extra needs a technique *)

NoTechnique == Named(node.children, "technique") = <<>>

\* what Asset.parse returns on the first asset child of the node
NestedAssetResult ==
    Asset_parse(Asset_new, Head(Named(node.children, "asset"))).res

NestedAssetAccepted ==
    Named(node.children, "asset") # <<>> => NestedAssetResult = Ok

\* C5 as claimed: every extra node without a technique child is rejected
\* with MissingElement{extra, technique}, whatever its attributes and other
\* children, a nested asset valid or not.
C5_ExtraNeedsTechnique ==
    (HasRun /\ target = "extra" /\ NoTechnique) =>
        res = Err(MissingElement("extra", "technique"))

\* C5 amended: an extra node without a technique child whose first asset
\* child, if any, Asset.parse accepts is rejected with
\* MissingElement{extra, technique}, whatever its attributes and other
\* children, and before any child is iterated (no technique is stored); when
\* Asset.parse rejects the first asset child, Extra.parse returns that
\* rejection instead.
C5_ExtraNeedsTechniqueAfterAsset ==
    (HasRun /\ target = "extra" /\ NoTechnique) =>
        /\ rec.techniques = <<>>
        /\ NestedAssetAccepted => res = Err(MissingElement("extra", "technique"))
        /\ ~NestedAssetAccepted => res = NestedAssetResult

\* an extra with attributes, a nested asset that parses and an unrecognised
\* child, but no technique
C5_Witness ==
    /\ target = "extra"
    /\ pc = "parsed"
    /\ NoTechnique
    /\ Named(node.children, "asset") # <<>>
    /\ NestedAssetAccepted
    /\ \E i \in DOMAIN node.children : node.children[i].name \notin ExtraTags
    /\ DOMAIN node.attributes # {}
    /\ IsSome(rec.asset)
    /\ res = Err(MissingElement("extra", "technique"))

----------------------------------------------------------------------------
(* C6  Location: the wrapper and the three sub-elements are mandatory *)

GeoTags == {"longitude", "latitude", "altitude"}

\* the node has no geographic_location child, and Location accepts it once
\* g is put back as its child i
GeoRemovedAt(i, g) ==
    /\ Named(node.children, "geographic_location") = <<>>
    /\ ParseOk("location", WithChildren(node, InsertAt(node.children, i, g)))

\* the geographic_location of the node has no sub-element tagged c.name, and
\* Location accepts the node once c is put back as its sub-element j
SubElementRemovedAt(j, c) ==
    /\ Named(node.children[1].children, c.name) = <<>>
    /\ ParseOk("location",
               WithChildren(node, <<WithChildren(node.children[1],
                                                 InsertAt(node.children[1].children, j, c))>>
                                  \o Tail(node.children)))

\* C6 as claimed: a node that Location.parse accepts, with its
\* geographic_location child removed, or with any one of the longitude,
\* latitude, altitude sub-elements removed, is rejected with a
\* missing-element or missing-data failure naming the removed element.
C6_LocationElementsMandatory ==
    (HasRun /\ target = "location") =>
        /\ \A i \in 1..(Len(node.children) + 1) :
              GeoRemovedAt(i, GeoA) => IsMissingNaming(res, "geographic_location")
        /\ (node.children # <<>> /\ node.children[1].name = "geographic_location") =>
              \A c \in GeoSmallPool :
                 \A j \in 1..(Len(node.children[1].children) + 1) :
                    (c.name \in GeoTags /\ SubElementRemovedAt(j, c)) =>
                        IsMissingNaming(res, c.name)

----------------------------------------------------------------------------
(* C7, C10  The altitude's mode attribute *)

ModeLiterals == {S_absolute, S_relativeToGround}

\* the children Location.parse loops over: those of the first child of the
\* node, once the node's tag and the two counts have passed
LoopChildren ==
    IF /\ node.name = "coverage"
       /\ node.children # <<>>
       /\ (Len(node.children) = 1 \/ node.children[1].name = "geographic_location")
       /\ Len(node.children[1].children) = 3
    THEN node.children[1].children
    ELSE <<>>

\* the loop gets to child i: it has accepted every child before it
LoopReaches(i) ==
    Location_parse_children(Location_new, SubSeq(LoopChildren, 1, i - 1), 1).res = Ok

\* child i of the loop is an altitude whose text is a number
NumericAltitudeAt(i) ==
    /\ LoopChildren[i].name = "altitude"
    /\ IsSome(LoopChildren[i].text)
    /\ IsSome(ParseF32(Unwrap(LoopChildren[i].text)))

\* child i of the loop is an altitude with some text
TextAltitudeAt(i) ==
    /\ LoopChildren[i].name = "altitude"
    /\ IsSome(LoopChildren[i].text)

HasMode(c) == "mode" \in DOMAIN c.attributes

\* C7 as claimed: an altitude element with text but without a mode attribute
\* makes Location.parse fail with the missing-attribute kind naming altitude
\* and mode, a kind other than the one an invalid mode yields, and the
\* default mode is never silently used.
C7_ModeMandatory ==
    (HasRun /\ target = "location") =>
        \A i \in DOMAIN LoopChildren :
            (LoopReaches(i) /\ TextAltitudeAt(i) /\ ~HasMode(LoopChildren[i])) =>
                res = Err(MissingAttr("altitude", "mode"))

\* the mode attribute of the last altitude among the loop's children
LastAltitudeMode == Last(Named(LoopChildren, "altitude")).attributes["mode"]

\* the mode attribute that Location.encode wrote on its altitude
EncodedMode ==
    Head(Named(Unwrap(out).children[1].children, "altitude")).attributes["mode"]

\* the loop gets to a numeric altitude i whose mode is none of the literals
InvalidModeAt(i) ==
    /\ LoopReaches(i)
    /\ NumericAltitudeAt(i)
    /\ HasMode(LoopChildren[i])
    /\ LoopChildren[i].attributes["mode"] \notin ModeLiterals

\* parse then encode of a node with an altitude writes back the mode literal
\* of the (last) altitude
ModeLiteralRoundTrips ==
    (HasEncoded /\ target = "location" /\ Named(LoopChildren, "altitude") # <<>>) =>
        /\ LastAltitudeMode \in ModeLiterals
        /\ EncodedMode = LastAltitudeMode

\* C10 as claimed: for each mode literal, Location.parse then Location.encode
\* writes the same literal on the altitude; every other mode value makes
\* Location.parse fail with the invalid-data kind (element altitude, the
\* offending value).
C10_AltitudeModeLaw ==
    /\ ModeLiteralRoundTrips
    /\ (HasRun /\ target = "location") =>
          \A i \in DOMAIN LoopChildren :
              InvalidModeAt(i) =>
                  res = Err(InvalidData("altitude", LoopChildren[i].attributes["mode"]))

\* C10 amended: the same round trip; every other mode value on an altitude
\* that Location.parse gets to makes it fail with InvalidAttrData{elem
\* altitude, attr mode, data the offending value} when the altitude's text is
\* a number, and the call panics on the text before it reads the mode when
\* the text is not a number.
C10_AltitudeModeLawAttrData ==
    /\ ModeLiteralRoundTrips
    /\ (HasRun /\ target = "location") =>
          \A i \in DOMAIN LoopChildren :
              /\ InvalidModeAt(i) =>
                    res = Err(InvalidAttrData("altitude", "mode",
                                              LoopChildren[i].attributes["mode"]))
              /\ (LoopReaches(i) /\ TextAltitudeAt(i) /\ ~NumericAltitudeAt(i)) =>
                    res = Panic("unwrap")

\* an altitude whose mode is none of the literals, rejected as such
C10_Witness ==
    /\ target = "location"
    /\ pc = "parsed"
    /\ \E i \in DOMAIN LoopChildren : InvalidModeAt(i)
    /\ res.kind = "Err"
    /\ res.err.type = "InvalidAttrData"
    /\ res.err.data = S_bad

----------------------------------------------------------------------------
(* C8  Technique needs a profile *)

\* C8: Technique.parse of a node tagged technique without a profile
\* attribute fails with MissingAttr{technique, profile}; with a profile
\* attribute it returns Ok and Technique.profile is the attribute's value.
C8_TechniqueProfile ==
    (HasRun /\ target = "technique" /\ node.name = "technique") =>
        IF "profile" \in DOMAIN node.attributes
        THEN res = Ok /\ rec.profile = node.attributes["profile"]
        ELSE res = Err(MissingAttr("technique", "profile"))

\* a technique node with another attribute and a payload but no profile
C8_Witness ==
    /\ target = "technique"
    /\ pc = "parsed"
    /\ node.name = "technique"
    /\ DOMAIN node.attributes = {"xmlns"}
    /\ node.children # <<>>
    /\ res = Err(MissingAttr("technique", "profile"))

----------------------------------------------------------------------------
(* C9  UpAxis exhaustive-variant law *)

UpAxisLiterals == {S_X_UP, S_Y_UP, S_Z_UP}

\* Asset.parse gets to child i: it has accepted every child before it
AssetReaches(i) ==
    Asset_parse_children(Asset_new, SubSeq(node.children, 1, i - 1), 1).res = Ok

\* C9: parse then encode of an asset node with an up_axis child writes one
\* up_axis child with the same literal of {X_UP, Y_UP, Z_UP} (that of the
\* last up_axis child); an up_axis child with any other text that Asset.parse
\* gets to makes it fail with InvalidData{elem up_axis, data the text}.
C9_UpAxisLaw ==
    /\ (HasEncoded /\ target = "asset" /\ Named(node.children, "up_axis") # <<>>) =>
          /\ Unwrap(Last(Named(node.children, "up_axis")).text) \in UpAxisLiterals
          /\ Named(Unwrap(out).children, "up_axis")
                = <<Leaf("up_axis", Last(Named(node.children, "up_axis")).text)>>
    /\ (HasRun /\ target = "asset") =>
          \A i \in DOMAIN node.children :
              (/\ node.children[i].name = "up_axis"
               /\ IsSome(node.children[i].text)
               /\ Unwrap(node.children[i].text) \notin UpAxisLiterals
               /\ AssetReaches(i)) =>
                  res = Err(InvalidData("up_axis", Unwrap(node.children[i].text)))

\* two up_axis children with different literals, the last one written back
C9_Witness ==
    /\ target = "asset"
    /\ pc = "encoded"
    /\ Len(Named(node.children, "up_axis")) = 2
    /\ Named(node.children, "up_axis")[1].text # Named(node.children, "up_axis")[2].text
    /\ Named(Unwrap(out).children, "up_axis")
          = <<Leaf("up_axis", Named(node.children, "up_axis")[2].text)>>

----------------------------------------------------------------------------
(* C11  A malformed numeric literal *)

\* Asset.parse gets to child i, a unit whose meter attribute is no number
MalformedUnitAt(i) ==
    /\ node.children[i].name = "unit"
    /\ "meter" \in DOMAIN node.children[i].attributes
    /\ ~IsSome(ParseF32(node.children[i].attributes["meter"]))
    /\ AssetReaches(i)

\* the loop of Location.parse gets to child i, a longitude, latitude or
\* altitude whose text is no number
MalformedCoordinateAt(i) ==
    /\ LoopReaches(i)
    /\ LoopChildren[i].name \in GeoTags
    /\ IsSome(LoopChildren[i].text)
    /\ ~IsSome(ParseF32(Unwrap(LoopChildren[i].text)))

\* C11 as claimed: a unit child whose meter attribute is not a valid number
\* makes Asset.parse return the error ParseError, and a longitude, latitude
\* or altitude whose text is not a valid number makes Location.parse return
\* the error ParseError; the call neither aborts nor keeps a default.
C11_ParseErrorPropagated ==
    /\ (HasRun /\ target = "asset") =>
          \A i \in DOMAIN node.children : MalformedUnitAt(i) => res = Err(ParseError)
    /\ (HasRun /\ target = "location") =>
          \A i \in DOMAIN LoopChildren : MalformedCoordinateAt(i) => res = Err(ParseError)

----------------------------------------------------------------------------
(* C12  The order of Asset.encode *)

\* n times the tag
Repeat(tag, n) == [i \in 1..n |-> tag]

Tags(cs) == [i \in DOMAIN cs |-> cs[i].name]

\* the tag once iff the field is set
TagIfSome(tag, field) == IF IsSome(field) THEN <<tag>> ELSE <<>>

\* the tags of the children of the encoding of asset record r, in order
ExpectedTags(r) ==
    Repeat("contributor", Len(r.contributors))
    \o TagIfSome("coverage", r.location)
    \o <<"created", "keywords", "modified">>
    \o TagIfSome("revision", r.revision)
    \o TagIfSome("subject", r.subject)
    \o TagIfSome("title", r.title)
    \o TagIfSome("unit", r.unit)
    \o TagIfSome("up_axis", r.up_axis)
    \o Repeat("extra", Len(r.extras))

RECURSIVE InEncodeOrder(_, _)
\* e has the children of the encoding of asset record r in the fixed order,
\* contributors and extras in record order, and so have the assets nested in
\* its extras
InEncodeOrder(r, e) ==
    /\ Tags(e.children) = ExpectedTags(r)
    /\ Named(e.children, "contributor")
          = [i \in DOMAIN r.contributors |-> Contributor_encode(r.contributors[i])]
    /\ \A i \in DOMAIN r.extras :
          /\ Named(e.children, "extra")[i].attributes = Extra_encode_attrs(r.extras[i])
          /\ Named(Named(e.children, "extra")[i].children, "technique")
                = [j \in DOMAIN r.extras[i].techniques |->
                      Technique_encode(r.extras[i].techniques[j])]
          /\ IsSome(r.extras[i].asset) =>
                InEncodeOrder(Unwrap(r.extras[i].asset),
                              Head(Named(e.children, "extra")[i].children))

\* C12: Asset.encode emits its children in the fixed order contributor*
\* (record order), coverage iff location set, created, keywords, modified,
\* revision, subject, title, unit, up_axis (each iff set), extra* (record
\* order); created, keywords and modified are there exactly once for every
\* record, and the order does not depend on the order of the parsed children.
C12_EncodeOrder ==
    (HasEncoded /\ target = "asset") =>
        /\ InEncodeOrder(rec, Unwrap(out))
        /\ \A tag \in {"created", "keywords", "modified"} :
              Len(Named(Unwrap(out).children, tag)) = 1

\* children parsed in another order than the one they are written in: an
\* extra, then up_axis, then a contributor, with no keywords
C12_Witness ==
    /\ target = "asset"
    /\ pc = "encoded"
    /\ Tags(node.children) = <<"extra", "up_axis", "contributor">>
    /\ Tags(Unwrap(out).children)
          = <<"contributor", "created", "keywords", "modified", "up_axis", "extra">>
    /\ rec.keywords = <<>>

----------------------------------------------------------------------------
(* C13  Keywords *)

Blank(t, k) == t[k] \in {" ", "\t", "\n", "\r"}

\* the positions of t where a maximal whitespace-free token starts
TokenStarts(t) == {a \in DOMAIN t : ~Blank(t, a) /\ (a = 1 \/ Blank(t, a - 1))}

\* the maximal whitespace-free token of t that starts at a
TokenAt(t, a) ==
    SubSeq(t, a, CHOOSE b \in a..Len(t) :
                    /\ \A k \in a..b : ~Blank(t, k)
                    /\ (b = Len(t) \/ Blank(t, b + 1)))

Min(S) == CHOOSE a \in S : \A b \in S : a <= b

RECURSIVE TokensFrom(_, _)
TokensFrom(t, starts) ==
    IF starts = {} THEN <<>>
    ELSE <<TokenAt(t, Min(starts))>> \o TokensFrom(t, starts \ {Min(starts)})

\* the maximal whitespace-free tokens of t, in order
Tokens(t) == TokensFrom(t, TokenStarts(t))

RECURSIVE TokensOfAll(_)
\* the tokens of the texts of the keywords elements ks, in order
TokensOfAll(ks) ==
    IF ks = <<>> THEN <<>> ELSE Tokens(Unwrap(Head(ks).text)) \o TokensOfAll(Tail(ks))

RECURSIVE Joined(_)
\* the tokens K with exactly one space between two of them
Joined(K) ==
    IF K = <<>> THEN <<>>
    ELSE IF Len(K) = 1 THEN K[1]
    ELSE K[1] \o <<" ">> \o Joined(Tail(K))

\* the text of the keywords child that Asset.encode wrote
EncodedKeywords == Unwrap(Head(Named(Unwrap(out).children, "keywords")).text)

\* C13: Asset.parse stores the maximal whitespace-free tokens of the keywords
\* texts in order, none empty; Asset.encode writes them joined by exactly
\* one space with no leading or trailing space, the empty list as the empty
\* text; and parsing the encoded text yields the list again.
C13_Keywords ==
    /\ (HasEncoded /\ target = "asset") =>
          /\ rec.keywords = TokensOfAll(Named(node.children, "keywords"))
          /\ \A i \in DOMAIN rec.keywords :
                /\ rec.keywords[i] # <<>>
                /\ \A k \in DOMAIN rec.keywords[i] : ~Blank(rec.keywords[i], k)
          /\ EncodedKeywords = Joined(rec.keywords)
          /\ rec.keywords = <<>> => EncodedKeywords = <<>>
          /\ Tokens(EncodedKeywords) = rec.keywords
    /\ (pc = "reparsed" /\ target = "asset") => rec2.keywords = rec.keywords

\* two keywords children, blanks in front, doubled and at the end, four
\* tokens written back with one space between them
C13_Witness ==
    /\ target = "asset"
    /\ pc = "reparsed"
    /\ Len(Named(node.children, "keywords")) = 2
    /\ Blank(Unwrap(Named(node.children, "keywords")[1].text), 1)
    /\ rec.keywords = <<<<"a">>, <<"b">>, <<"a">>, <<"b">>>>
    /\ EncodedKeywords = <<"a", " ", "b", " ", "a", " ", "b">>
    /\ rec2.keywords = rec.keywords

----------------------------------------------------------------------------
(* C14  Unit *)

\* the last unit child of the node
LastUnit == Last(Named(node.children, "unit"))

\* the attribute of e as an optional value
AttrOf(e, k) == IF k \in DOMAIN e.attributes THEN Some(e.attributes[k]) ELSE None

\* the unit child that Asset.encode wrote
EncodedUnit == Head(Named(Unwrap(out).children, "unit"))

\* C14: a unit child sets name and meter independently from its attributes,
\* an absent attribute leaving the field unset rather than at the
\* constructor's default; Asset.encode writes one unit element without text
\* whose attributes are exactly the set fields, name as it is and meter as a
\* literal of its value.
C14_Unit ==
    (HasEncoded /\ target = "asset" /\ Named(node.children, "unit") # <<>>) =>
        /\ IsSome(rec.unit)
        /\ Unwrap(rec.unit).name = AttrOf(LastUnit, "name")
        /\ Unwrap(rec.unit).meter
              = (IF "meter" \in DOMAIN LastUnit.attributes
                 THEN ParseF32(LastUnit.attributes["meter"]) ELSE None)
        /\ Len(Named(Unwrap(out).children, "unit")) = 1
        /\ EncodedUnit.text = None
        /\ EncodedUnit.children = <<>>
        /\ DOMAIN EncodedUnit.attributes
              = {k \in {"name", "meter"} : IsSome(Unwrap(rec.unit)[k])}
        /\ AttrOf(EncodedUnit, "name") = Unwrap(rec.unit).name
        /\ IsSome(Unwrap(rec.unit).meter) =>
              ParseF32(EncodedUnit.attributes["meter"]) = Unwrap(rec.unit).meter

\* a unit with a name and no meter, then one with a meter and no name: the
\* second one is stored, its name unset, and written with meter alone
C14_Witness ==
    /\ target = "asset"
    /\ pc = "encoded"
    /\ Len(Named(node.children, "unit")) = 2
    /\ DOMAIN Named(node.children, "unit")[1].attributes = {"name"}
    /\ DOMAIN LastUnit.attributes = {"meter"}
    /\ Unwrap(rec.unit).name = None
    /\ DOMAIN EncodedUnit.attributes = {"meter"}
    /\ EncodedUnit.attributes["meter"] = <<"2">>

----------------------------------------------------------------------------
(* C15  The shape of Location.encode *)

\* the geographic_location that Location.encode wrote, and its altitude
EncodedGeo == Unwrap(out).children[1]

EncodedAltitude == EncodedGeo.children[3]

\* s is an integer literal: digits, after an optional minus sign
IsIntegerLiteral(s) ==
    /\ s # <<>>
    /\ s # <<"-">>
    /\ \A k \in DOMAIN s : s[k] \in {"0", "1", "2", "3", "4", "5", "6", "7", "8", "9"}
                            \/ (k = 1 /\ s[k] = "-")

\* the literal of mode mode
ModeLiteral(mode) == IF mode = "Absolute" THEN S_absolute ELSE S_relativeToGround

\* a coverage with one geographic_location whose children are longitude,
\* latitude, altitude in that order, the altitude with the mode's literal
EncodedShape ==
    /\ Unwrap(out).name = "coverage"
    /\ Tags(Unwrap(out).children) = <<"geographic_location">>
    /\ Tags(EncodedGeo.children) = <<"longitude", "latitude", "altitude">>
    /\ ParseF32(Unwrap(EncodedGeo.children[1].text)) = Some(rec.longitude)
    /\ ParseF32(Unwrap(EncodedGeo.children[2].text)) = Some(rec.latitude)
    /\ DOMAIN EncodedAltitude.attributes = {"mode"}
    /\ EncodedAltitude.attributes["mode"] = ModeLiteral(rec.mode)
    /\ IsIntegerLiteral(Unwrap(EncodedAltitude.text))

\* C15 as claimed: Location.encode returns a coverage with exactly one
\* geographic_location whose children are longitude, latitude, altitude in
\* that order; the altitude text is the altitude truncated toward zero to an
\* integer and its mode attribute the literal of the record's mode; and
\* Location.parse accepts the output.
C15_LocationEncodeTruncated ==
    /\ (HasEncoded /\ target = "location") =>
          /\ EncodedShape
          /\ ParseF32(Unwrap(EncodedAltitude.text)) = Some(Truncated(rec.altitude))
    /\ (pc = "reparsed" /\ target = "location") => res2 = Ok

\* C15 amended: the same, the altitude text being the altitude converted to
\* i32: truncated toward zero and saturated to the i32 range, 0 for NaN.
C15_LocationEncodeSaturated ==
    /\ (HasEncoded /\ target = "location") =>
          /\ EncodedShape
          /\ ParseF32(Unwrap(EncodedAltitude.text)) = Some(SaturatedTruncated(rec.altitude))
          /\ rec.altitude.kind = "nan" => Unwrap(EncodedAltitude.text) = <<"0">>
          /\ rec.altitude = F32Inf(FALSE) =>
                Unwrap(EncodedAltitude.text)
                   = <<"2", "1", "4", "7", "4", "8", "3", "6", "4", "7">>
    /\ (pc = "reparsed" /\ target = "location") => res2 = Ok

\* a negative altitude with a fraction, written without it and read back
C15_Witness ==
    /\ target = "location"
    /\ pc = "reparsed"
    /\ res2 = Ok
    /\ rec.altitude = F32OfDecimal(TRUE, 79, -1)
    /\ rec.mode = "RelativeToGround"
    /\ Unwrap(EncodedAltitude.text) = <<"-", "7">>
    /\ EncodedAltitude.attributes["mode"] = S_relativeToGround

----------------------------------------------------------------------------
(* C16  Contributor *)

FieldOrder ==
    <<"author", "author_email", "author_website", "authoring_tool", "comments",
      "copyright", "source_data">>

RECURSIVE FieldChildren(_, _)
\* one child per set field of contributor record r, from field i of the
\* order on, the field's value as text
FieldChildren(r, i) ==
    IF i > Len(FieldOrder) THEN <<>>
    ELSE (IF IsSome(r[FieldOrder[i]]) THEN <<Leaf(FieldOrder[i], r[FieldOrder[i]])>> ELSE <<>>)
         \o FieldChildren(r, i + 1)

\* the permutations of 1..n
Perms(n) == {f \in [1..n -> 1..n] : \A i, j \in 1..n : f[i] = f[j] => i = j}

\* the children of the node are distinct recognised children with text
DistinctFields ==
    /\ \A i \in DOMAIN node.children :
          node.children[i].name \in ContributorTags /\ IsSome(node.children[i].text)
    /\ \A i, j \in DOMAIN node.children :
          node.children[i].name = node.children[j].name => i = j

\* C16: Contributor.encode emits one child for each set field and none for
\* an unset one, in the fixed order, with the field's value as text;
\* Contributor.parse of any permutation of distinct recognised children with
\* text yields the same record; and parse(encode(C)) = C.
C16_Contributor ==
    /\ (HasEncoded /\ target = "contributor") =>
          Unwrap(out) = Element("contributor", NoAttrs, FieldChildren(rec, 1), None)
    /\ (HasRun /\ target = "contributor" /\ node.name = "contributor" /\ DistinctFields) =>
          \A f \in Perms(Len(node.children)) :
              Contributor_parse(Contributor_new,
                                WithChildren(node, [i \in DOMAIN node.children |->
                                                      node.children[f[i]]]))
                 = Outcome(rec, Ok)
    /\ (pc = "reparsed" /\ target = "contributor") => (res2 = Ok /\ rec2 = rec)

\* three fields given in the reverse of the order they are written in, one
\* of them with the empty text
C16_Witness ==
    /\ target = "contributor"
    /\ pc = "reparsed"
    /\ Tags(node.children) = <<"comments", "author_email", "author">>
    /\ Tags(Unwrap(out).children) = <<"author", "author_email", "comments">>
    /\ rec.comments = Some(<<>>)
    /\ rec2 = rec

----------------------------------------------------------------------------
(* C17  The rigid wire shape of a location *)

\* exactly one geographic_location child, with exactly one longitude, one
\* latitude and one altitude
RigidShape ==
    /\ Tags(node.children) = <<"geographic_location">>
    /\ Len(node.children[1].children) = 3
    /\ \A tag \in GeoTags : Len(Named(node.children[1].children, tag)) = 1

\* no child, more than one child, or a single child with another tag
WrongWrapper ==
    \/ Len(node.children) # 1
    \/ node.children[1].name # "geographic_location"

\* C17 as claimed: Location.parse returns Ok only on a coverage with exactly
\* one child, tagged geographic_location, whose children are exactly one
\* longitude, one latitude and one altitude; a coverage with zero children,
\* more than one child, or a single child of another tag is rejected with
\* MissingElement{location, geographic_location}.
C17_RigidWireShape ==
    (HasRun /\ target = "location" /\ node.name = "coverage") =>
        /\ res = Ok => RigidShape
        /\ WrongWrapper => res = Err(MissingElement("location", "geographic_location"))

----------------------------------------------------------------------------
(* C18  Fail-fast propagation *)

\* how the validation of child c of an asset node ends: for a nested record,
\* as that record's parse on c ends
AssetChildResult(c) ==
    CASE c.name = "contributor" -> Contributor_parse(Contributor_new, c).res
      [] c.name = "coverage" -> Location_parse(Location_new, c).res
      [] c.name = "extra" -> Extra_parse(Extra_new, c).res
      [] OTHER -> Asset_parse_child(Asset_new, c).res

\* how the validation of child c of an extra node ends
ExtraChildResult(c) ==
    CASE c.name = "technique" -> Technique_parse(Technique_new, c).res
      [] c.name = "asset" -> Asset_parse(Asset_new, c).res
      [] OTHER -> Err(InvalidChild(c.name, "extra"))

\* the same in the loop of Extra.parse, which skips the asset children
ExtraLoopResult(c) == IF c.name = "asset" THEN Ok ELSE ExtraChildResult(c)

\* the first index of results that is not Ok, 0 when all are
FirstFailing(results) ==
    IF \A i \in DOMAIN results : results[i] = Ok THEN 0
    ELSE Min({i \in DOMAIN results : results[i] # Ok})

AssetResults == [i \in DOMAIN node.children |-> AssetChildResult(node.children[i])]

ExtraResults == [i \in DOMAIN node.children |-> ExtraChildResult(node.children[i])]

ExtraLoopResults == [i \in DOMAIN node.children |-> ExtraLoopResult(node.children[i])]

\* the techniques among the first n children of the node, parsed
TechniquesBefore(n) ==
    [j \in DOMAIN Named(SubSeq(node.children, 1, n), "technique") |->
        Technique_parse(Technique_new, Named(SubSeq(node.children, 1, n), "technique")[j]).self]

\* Asset.parse ends as its first failing child in document order, with the
\* record that the children before it make
AssetFailsFast ==
    (pc = "parsed" /\ target = "asset") =>
        LET results == AssetResults
            k == FirstFailing(results)
        IN  IF k = 0 THEN res = Ok
            ELSE /\ res = results[k]
                 /\ rec = Asset_parse(Asset_new,
                                      WithChildren(node, SubSeq(node.children, 1, k - 1))).self

\* C18 as claimed: the error that Asset.parse or Extra.parse returns is that
\* of the first child in document order that fails validation, unchanged
\* for a nested record, and no child after it is parsed or appended.
C18_FailFast ==
    /\ AssetFailsFast
    /\ (HasRun /\ target = "extra" /\ FirstFailing(ExtraResults) # 0) =>
          /\ res = ExtraResults[FirstFailing(ExtraResults)]
          /\ rec.techniques = TechniquesBefore(FirstFailing(ExtraResults) - 1)

\* C18 amended: Asset.parse as claimed; Extra.parse ends as the parse of its
\* first asset child when that fails, wherever the child stands; else with
\* MissingElement{extra, technique} when it has no technique child; else as
\* the first technique or unrecognised child in document order that fails,
\* no later technique being parsed or appended.
C18_FailFastAfterAsset ==
    /\ AssetFailsFast
    /\ (HasRun /\ target = "extra") =>
          IF ~NestedAssetAccepted THEN res = NestedAssetResult /\ rec.techniques = <<>>
          ELSE IF NoTechnique
          THEN res = Err(MissingElement("extra", "technique")) /\ rec.techniques = <<>>
          ELSE IF FirstFailing(ExtraLoopResults) = 0
          THEN res = Ok /\ rec.techniques = TechniquesBefore(Len(node.children))
          ELSE /\ res = ExtraLoopResults[FirstFailing(ExtraLoopResults)]
               /\ rec.techniques = TechniquesBefore(FirstFailing(ExtraLoopResults) - 1)

\* a contributor, then an extra that fails, then a contributor that would
\* pass: the extra's error comes back and one contributor is stored
C18_Witness ==
    /\ target = "asset"
    /\ pc = "parsed"
    /\ Tags(node.children) = <<"contributor", "extra", "contributor">>
    /\ AssetResults[1] = Ok
    /\ AssetResults[3] = Ok
    /\ res = Err(MissingElement("extra", "technique"))
    /\ Len(rec.contributors) = 1

----------------------------------------------------------------------------
(* C19  No partial result on failure *)

\* C19 as claimed: whenever parse of Asset, Extra, Contributor, Location or
\* Technique returns an error, every field of the record it was called on
\* has the value it had before the call.
C19_NoPartialResult ==
    (pc = "parsed" /\ res.kind = "Err") => rec = New(target)

----------------------------------------------------------------------------
(* C20  A technique's profile is not empty *)

\* C20 as claimed: every Technique that a successful Technique.parse
\* produced has a non-empty profile; a technique node whose profile
\* attribute is the empty string is not accepted.
C20_ProfileNotEmpty ==
    (HasRun /\ target = "technique" /\ res = Ok) => rec.profile # <<>>

----------------------------------------------------------------------------
(* C21  The techniques and the nested asset of an extra *)

\* C21: after a successful Extra.parse on a fresh Extra the techniques list
\* has at least one entry and holds, in document order, the technique
\* children of the node (asset children are skipped); each technique's
\* profile is the profile attribute of its payload; and the nested asset is
\* set iff the node has an asset child.
C21_ExtraTechniques ==
    (pc = "parsed" /\ target = "extra" /\ res = Ok) =>
        /\ Len(rec.techniques) >= 1
        /\ [i \in DOMAIN rec.techniques |-> rec.techniques[i].data]
              = Named(node.children, "technique")
        /\ \A i \in DOMAIN rec.techniques :
              rec.techniques[i].profile = rec.techniques[i].data.attributes["profile"]
        /\ IsSome(rec.asset) <=> Named(node.children, "asset") # <<>>

\* two different techniques with an asset between them
C21_Witness ==
    /\ target = "extra"
    /\ pc = "parsed"
    /\ res = Ok
    /\ Tags(node.children) = <<"technique", "asset", "technique">>
    /\ node.children[1] # node.children[3]
    /\ Len(rec.techniques) = 2
    /\ rec.techniques[2].data = node.children[3]
    /\ IsSome(rec.asset)

----------------------------------------------------------------------------
(* C22  Repeated children of an asset *)

\* the text of the last child of the node named name
LastText(name) == Unwrap(Last(Named(node.children, name)).text)

\* the value of an up_axis literal
UpAxisOf(t) ==
    CASE t = S_X_UP -> "XUP"
      [] t = S_Y_UP -> "YUP"
      [] t = S_Z_UP -> "ZUP"

\* the children of the node named name, each parsed on a fresh record of
\* kind t
ParsedChildren(t, name) ==
    [i \in DOMAIN Named(node.children, name) |->
        Parse(t, New(t), Named(node.children, name)[i]).self]

\* C22: Asset.parse never rejects a repeated child: it fails only where one
\* of the children fails on its own.  After a successful parse a
\* single-valued field (created, modified, revision, subject, title,
\* up_axis, unit, coverage) that has children holds the value of the last of
\* them in document order, the contributors and the extras are the parsed
\* contributor and extra children in document order, and the keywords are
\* the tokens of all keywords children in document order.
C22_RepeatedChildren ==
    /\ (pc = "parsed" /\ target = "asset" /\ res # Ok) =>
          \E i \in DOMAIN node.children : AssetChildResult(node.children[i]) = res
    /\ (pc = "parsed" /\ target = "asset" /\ res = Ok) =>
          /\ Named(node.children, "created") # <<>> => rec.created = LastText("created")
          /\ Named(node.children, "modified") # <<>> => rec.modified = LastText("modified")
          /\ \A f \in {"revision", "subject", "title"} :
                Named(node.children, f) # <<>> => rec[f] = Some(LastText(f))
          /\ Named(node.children, "up_axis") # <<>> =>
                rec.up_axis = Some(UpAxisOf(LastText("up_axis")))
          /\ Named(node.children, "unit") # <<>> =>
                rec.unit = Some([name |-> AttrOf(LastUnit, "name"),
                                 meter |-> IF "meter" \in DOMAIN LastUnit.attributes
                                           THEN ParseF32(LastUnit.attributes["meter"])
                                           ELSE None])
          /\ Named(node.children, "coverage") # <<>> =>
                rec.location = Some(Last(ParsedChildren("location", "coverage")))
          /\ rec.contributors = ParsedChildren("contributor", "contributor")
          /\ rec.extras = ParsedChildren("extra", "extra")
          /\ rec.keywords = TokensOfAll(Named(node.children, "keywords"))

\* two different coverage children beside a created child: the later
\* coverage is stored
C22_Witness ==
    /\ target = "asset"
    /\ pc = "parsed"
    /\ res = Ok
    /\ Len(node.children) = 3
    /\ \E i, j, k \in 1..3 :
          /\ i < j
          /\ k \notin {i, j}
          /\ node.children[i].name = "coverage"
          /\ node.children[j].name = "coverage"
          /\ node.children[i] # node.children[j]
          /\ node.children[k].name = "created"
          /\ rec.location = Some(Location_parse(Location_new, node.children[j]).self)
          /\ rec.location # Some(Location_parse(Location_new, node.children[i]).self)

----------------------------------------------------------------------------
(* C23  Technique.encode and the profile field *)

\* a technique was encoded, parsed from a node or built by hand
TechniqueEncoded ==
    target = "technique" /\ pc \in {"encoded", "reparsed", "encoded_constructed", "reparsed_constructed"}

====
